---- MODULE Spec2Model ----
(***************************************************************************)
(* Help Center API (src/main.py): Topics holding ordered Tips, kept in two *)
(* MongoDB collections (db.topics, db.tips).                               *)
(*                                                                         *)
(* A collection is the sequence of its documents in insertion order.      *)
(* Every handler is a step function over a request frame: one step runs   *)
(* the handler's code up to and including its next awaited store call.    *)
(* Spec runs each request to completion before the next one starts        *)
(* (serialized access); SpecConc interleaves the steps of two requests.   *)
(*                                                                         *)
(* Not modelled: created_at/updated_at, isNew, icon, media (no handler    *)
(* branches on them) and request bodies that fail pydantic validation.    *)
(***************************************************************************)
EXTENDS Integers, Sequences, FiniteSets, TLC

VARIABLES topics, tips, last, rq, issued

vars == <<topics, tips, last, rq, issued>>

(* ---------------------------- bounds ---------------------------------- *)
\* most documents Spec stores, Topics and Tips together
MaxDocs == 4
\* IDs handed out in Spec: topic_id <= MaxTopicIds, tip_id < TipSeed + MaxTipIds
MaxTopicIds == MaxDocs \div 2
MaxTipIds == MaxDocs - 1
\* largest display_order a request of Spec carries, and largest one it stores
MaxOrder == MaxDocs \div 2
\* Topics, and Tips of Topic 1, in the initial store of SpecConc
ConcSize == 3

(* ------------------------ program constants --------------------------- *)
TopicSeed == 1
TipSeed == 2001
DefaultDisplayOrder == 1
\* search: limit and offset defaults; relevance scores 1.0, 0.8, 0.6 in tenths
DefaultLimit == 20
DefaultOffset == 0
ScoreInitial == 10
ScoreTitleStart == 10
ScoreTitleLater == 8
ScoreDescription == 6

(* Optional[T]: None, or a one-element sequence holding the value.        *)
None == <<>>
Some(v) == <<v>>

Titles == {"Project Management"}
TopicDescriptions == {None}
TipDescriptions == {"To create a new project"}

(* ------------------------------ text ---------------------------------- *)
\* A str a search reads is Str(chars), chars the sequence of its characters;
\* Str(<<>>) is "" and differs from None. The texts no operation of a
\* specification reads stay whole strings.
Str(chars) == <<"str", chars>>
Chars(text) == text[2]

LowerChar(c) == CASE c = "P" -> "p" [] c = "X" -> "x" [] OTHER -> c

\* str.lower()
lower(chars) == [i \in DOMAIN chars |-> LowerChar(chars[i])]

\* str.find(sub): the lowest index (from 0) where sub occurs, -1 if nowhere
find(chars, sub) ==
    LET At(i) == /\ i + Len(sub) <= Len(chars)
                 /\ \A j \in 1..Len(sub) : chars[i + j] = sub[j]
        hits == {i \in 0..Len(chars) : At(i)}
    IN IF hits = {} THEN 0 - 1 ELSE CHOOSE i \in hits : \A j \in hits : i <= j

\* {"$regex": pattern, "$options": options} on a str: the pattern is a regular
\* expression searched anywhere in the text. Of its metacharacters the model
\* has ".", any one character; the option "i" ignores case.
regex_search(chars, pattern, options) ==
    LET Same(c, p) == \/ p = "."
                      \/ IF options = "i" THEN LowerChar(c) = LowerChar(p) ELSE c = p
    IN \E i \in 0..Len(chars) :
          /\ i + Len(pattern) <= Len(chars)
          /\ \A j \in 1..Len(pattern) : Same(chars[i + j], pattern[j])

(* ------------------------ collection store ---------------------------- *)
\* A filter document is the set of its conditions <<field, operator, value>>;
\* {} is the empty filter {}.
Holds(v, op, x) ==
    CASE op = "$eq" -> v = x
      [] op = "$ne" -> v # x
      [] op = "$gt" -> v > x
      [] op = "$gte" -> v >= x
      [] op = "$lt" -> v < x
      [] op = "$lte" -> v <= x
      [] op = "$regex" -> IF v = None THEN FALSE ELSE regex_search(Chars(v), x[1], x[2])

Matches(doc, filter) == \A c \in filter : Holds(doc[c[1]], c[2], c[3])

Matching(coll, filter) == {i \in DOMAIN coll : Matches(coll[i], filter)}

First(I) == CHOOSE i \in I : \A j \in I : i <= j

\* find_one(filter): the first matching document in natural order
find_one(coll, filter) ==
    IF Matching(coll, filter) = {} THEN None
    ELSE Some(coll[First(Matching(coll, filter))])

\* variant without the sort: the first document in natural order
FindOneUnsorted(coll, key) == IF coll = <<>> THEN None ELSE Some(coll[1])

\* find_one({}, sort=[(key, -1)]): a document with the largest key
find_one_sort_desc(coll, key) ==
    IF coll = <<>> THEN None
    ELSE Some(coll[CHOOSE i \in DOMAIN coll :
                      \A j \in DOMAIN coll : coll[j][key] <= coll[i][key]])

\* count_documents(filter)
count_documents(coll, filter) == Cardinality(Matching(coll, filter))

\* update_many(filter, {"$inc": {"display_order": inc}})
update_many_inc(coll, filter, inc) ==
    [i \in DOMAIN coll |->
        IF Matches(coll[i], filter) THEN [coll[i] EXCEPT !.display_order = @ + inc]
        ELSE coll[i]]

\* variant with the filter dropped: every document takes the fields
UpdateEverySet(coll, filter, fields) ==
    [i \in DOMAIN coll |->
        [k \in DOMAIN coll[i] |-> IF k \in DOMAIN fields THEN fields[k] ELSE coll[i][k]]]

\* update_one(filter, {"$set": fields}): overwrite the fields of the first match
update_one_set(coll, filter, fields) ==
    IF Matching(coll, filter) = {} THEN coll
    ELSE [coll EXCEPT ![First(Matching(coll, filter))] =
            [k \in DOMAIN @ |-> IF k \in DOMAIN fields THEN fields[k] ELSE @[k]]]

\* the application-level id of a stored document
IdOf(doc) == IF "tip_id" \in DOMAIN doc THEN doc.tip_id ELSE doc.topic_id

\* The store gives every inserted document an _id, an ObjectId no other document
\* of the collection holds. An ObjectId equals no int: ObjectIds are modelled as
\* the negative integers, every application-level id being positive.
ObjectId(k) == 0 - k

new_object_id(coll) ==
    ObjectId(CHOOSE k \in 1..(Len(coll) + 1) :
                /\ \A i \in DOMAIN coll : coll[i]["_id"] # ObjectId(k)
                /\ \A j \in 1..(k - 1) : \E i \in DOMAIN coll : coll[i]["_id"] = ObjectId(j))

with_object_id(coll, doc) ==
    [k \in DOMAIN doc \cup {"_id"} |-> IF k = "_id" THEN new_object_id(coll) ELSE doc[k]]

\* variant with a unique index on the id: a second document of one id is refused
InsertUnlessIdTaken(coll, doc) ==
    IF \E i \in DOMAIN coll : IdOf(coll[i]) = IdOf(doc) THEN coll
    ELSE Append(coll, with_object_id(coll, doc))

\* insert_one(doc)
insert_one(coll, doc) == Append(coll, with_object_id(coll, doc))

\* variant whose delete is counted but not applied
DeleteOneLost(coll, filter) == coll

\* delete_one(filter): remove the first match
delete_one(coll, filter) ==
    IF Matching(coll, filter) = {} THEN coll
    ELSE LET k == First(Matching(coll, filter)) IN
         [i \in 1..(Len(coll) - 1) |-> IF i < k THEN coll[i] ELSE coll[i + 1]]

\* variant reporting that nothing was deleted
NothingDeleted(coll, filter) == 0

\* delete_one(filter).deleted_count
deleted_count(coll, filter) == IF Matching(coll, filter) = {} THEN 0 ELSE 1

\* variant with the cascade left out
DeleteNothing(coll, filter) == coll

\* variant removing one match only
DeleteFirstOnly(coll, filter) == delete_one(coll, filter)

\* delete_many(filter)
delete_many(coll, filter) ==
    LET Keep(d) == ~Matches(d, filter) IN SelectSeq(coll, Keep)

\* find(filter).sort("display_order", 1).to_list(): stable ascending sort
RECURSIVE SortByOrder(_)
SortByOrder(coll) ==
    IF coll = <<>> THEN <<>>
    ELSE LET k == CHOOSE i \in DOMAIN coll :
                    /\ \A j \in DOMAIN coll : coll[i].display_order <= coll[j].display_order
                    /\ \A j \in 1..(i - 1) : coll[j].display_order # coll[i].display_order
             rest == [i \in 1..(Len(coll) - 1) |-> IF i < k THEN coll[i] ELSE coll[i + 1]]
         IN <<coll[k]>> \o SortByOrder(rest)

\* find(filter).sort("display_order", 1).to_list(length=None)
find_sorted(coll, filter) ==
    LET Hit(d) == Matches(d, filter) IN SortByOrder(SelectSeq(coll, Hit))

(* ------------------------- Ordering Manager --------------------------- *)
\* The display_order ranges of the three shifts (the same in both handlers).

\* variant with the upper end excluded
MovedDownLoose(original_display_order, new_display_order) ==
    {<<"display_order", "$gt", original_display_order>>,
     <<"display_order", "$lt", new_display_order>>}

\* "display_order": {"$gt": original_display_order, "$lte": new_display_order}
moved_down(original_display_order, new_display_order) ==
    {<<"display_order", "$gt", original_display_order>>,
     <<"display_order", "$lte", new_display_order>>}

\* variant with the lower end excluded
MovedUpLoose(original_display_order, new_display_order) ==
    {<<"display_order", "$gt", new_display_order>>,
     <<"display_order", "$lt", original_display_order>>}

\* "display_order": {"$gte": new_display_order, "$lt": original_display_order}
moved_up(original_display_order, new_display_order) ==
    {<<"display_order", "$gte", new_display_order>>,
     <<"display_order", "$lt", original_display_order>>}

\* variant that leaves the member at display_order in place
PushedLoose(display_order) == {<<"display_order", "$gt", display_order>>}

\* "display_order": {"$gte": display_order} of a create
pushed(display_order) == {<<"display_order", "$gte", display_order>>}

(* --------------------------- request frames --------------------------- *)
NoLoc == [existing |-> None, dict |-> None, next_id |-> None]
NoResp == [status |-> 0, detail |-> "", body |-> <<>>]

\* op, pc, req, loc and resp are the request's handler, position, body, local
\* variables and response. Two fields are history only: pre is the store as
\* Spec's request found it, overlapped tells that another request of SpecConc
\* was in flight at some time between this one's arrival and its response.
Idle == [op |-> "none", pc |-> "idle", req |-> None, loc |-> NoLoc, resp |-> NoResp,
         pre |-> None, overlapped |-> FALSE]

Goto(f, pc, loc) == [f EXCEPT !.pc = pc, !.loc = loc]

\* return / raise HTTPException: the request is over
Finish(f, status, detail, body) ==
    [f EXCEPT !.pc = "done", !.resp = [status |-> status, detail |-> detail, body |-> body]]

Out(f, ts, ps) == [f |-> f, topics |-> ts, tips |-> ps]

\* TopicCreate(**body).model_dump(): an omitted display_order takes the default
TopicCreate(body) ==
    [topic_id |-> body.topic_id, title |-> body.title, description |-> body.description,
     display_order |-> IF body.display_order = None THEN Some(DefaultDisplayOrder)
                       ELSE body.display_order]

\* TipCreate(**body).model_dump()
TipCreate(body) ==
    [tip_id |-> body.tip_id, topic_id |-> body.topic_id, title |-> body.title,
     description |-> body.description,
     display_order |-> IF body.display_order = None THEN Some(DefaultDisplayOrder)
                       ELSE body.display_order]

\* the stored document a dumped model stands for
TopicDoc(d, id) ==
    [topic_id |-> id, title |-> d.title, description |-> d.description,
     display_order |-> d.display_order[1]]

TipDoc(d, id) ==
    [tip_id |-> id, topic_id |-> d.topic_id, title |-> d.title,
     description |-> d.description, display_order |-> d.display_order[1]]

\* Topic(**doc) with tipCount
TopicOut(doc, tip_count) ==
    [topic_id |-> doc.topic_id, title |-> doc.title, description |-> doc.description,
     display_order |-> doc.display_order, tipCount |-> tip_count]

Truthy(opt) == opt # None /\ opt # Some(0)

(* ------------------------------ handlers ------------------------------ *)
\* POST /api/topics
create_or_update_topic(f, ts, ps) ==
    LET topic == TopicCreate(f.req)
        topic_dict == f.loc.dict[1]
        new_display_order == topic_dict.display_order
    IN
    CASE f.pc = "L201" ->
           LET existing == find_one(ts, {<<"topic_id", "$eq", topic.topic_id[1]>>}) IN
           IF existing = None
           THEN Out(Finish(f, 404, "Topic not found", <<>>), ts, ps)
           ELSE Out(Goto(f, IF new_display_order # None
                              /\ new_display_order[1] # existing[1].display_order
                            THEN "L212" ELSE "L231",
                         [f.loc EXCEPT !.existing = existing]), ts, ps)
      [] f.pc = "L212" ->
           LET original_display_order == f.loc.existing[1].display_order IN
           IF new_display_order[1] > original_display_order
           THEN Out(Goto(f, "L231", f.loc),
                    update_many_inc(ts, {<<"topic_id", "$ne", topic.topic_id[1]>>}
                                        \cup moved_down(original_display_order,
                                                        new_display_order[1]), -1), ps)
           ELSE Out(Goto(f, "L231", f.loc),
                    update_many_inc(ts, {<<"topic_id", "$ne", topic.topic_id[1]>>}
                                        \cup moved_up(original_display_order,
                                                      new_display_order[1]), 1), ps)
      [] f.pc = "L231" ->
           Out(Goto(f, "L235", f.loc),
               update_one_set(ts, {<<"topic_id", "$eq", topic.topic_id[1]>>},
                              TopicDoc(topic_dict, topic.topic_id[1])), ps)
      [] f.pc = "L235" ->
           LET updated_topic == find_one(ts, {<<"topic_id", "$eq", topic.topic_id[1]>>}) IN
           IF updated_topic = None
           THEN Out(Finish(f, 500, "Internal Server Error", <<>>), ts, ps)
           ELSE Out(Goto(f, "L237", [f.loc EXCEPT !.existing = updated_topic]), ts, ps)
      [] f.pc = "L237" ->
           LET updated_topic == f.loc.existing[1]
               tip_count == count_documents(ps, {<<"topic_id", "$eq", updated_topic.topic_id>>})
           IN Out(Finish(f, 201, "", <<TopicOut(updated_topic, tip_count)>>), ts, ps)
      [] f.pc = "L243" ->
           LET max_topic == find_one_sort_desc(ts, "topic_id")
               next_topic_id == IF max_topic # None THEN max_topic[1].topic_id + 1
                                ELSE TopicSeed
           IN Out(Goto(f, IF topic_dict.display_order # None THEN "L255" ELSE "L261",
                       [f.loc EXCEPT !.next_id = Some(next_topic_id)]), ts, ps)
      [] f.pc = "L255" ->
           Out(Goto(f, "L267", f.loc),
               update_many_inc(ts, pushed(topic_dict.display_order[1]), 1), ps)
      [] f.pc = "L261" ->
           LET topic_count == count_documents(ts, {}) IN
           Out(Goto(f, "L267",
                    [f.loc EXCEPT !.dict = Some([topic_dict EXCEPT
                                                  !.display_order = Some(topic_count)])]),
               ts, ps)
      [] f.pc = "L267" ->
           Out(Goto(f, "L268", f.loc),
               insert_one(ts, TopicDoc(topic_dict, f.loc.next_id[1])), ps)
      [] f.pc = "L268" ->
           LET created_topic == find_one(ts, {<<"topic_id", "$eq", f.loc.next_id[1]>>}) IN
           IF created_topic = None
           THEN Out(Finish(f, 500, "Internal Server Error", <<>>), ts, ps)
           ELSE Out(Finish(f, 201, "", <<TopicOut(created_topic[1], 0)>>), ts, ps)

\* the call of the handler: the body is validated and dumped (line 198), and the
\* truthiness of topic_id (line 199) picks the branch
call_create_or_update_topic(body) ==
    [Idle EXCEPT !.op = "create_or_update_topic",
                 !.pc = IF Truthy(body.topic_id) THEN "L201" ELSE "L243",
                 !.req = body,
                 !.loc = [NoLoc EXCEPT !.dict = Some(TopicCreate(body))]]

\* GET /api/topics/{topic_id}
get_topic(f, ts, ps) ==
    CASE f.pc = "L285" ->
           LET topic == find_one(ts, {<<"topic_id", "$eq", f.req.topic_id>>}) IN
           IF topic = None
           THEN Out(Finish(f, 404, "Topic not found", <<>>), ts, ps)
           ELSE Out(Goto(f, "L290", [f.loc EXCEPT !.existing = topic]), ts, ps)
      [] f.pc = "L290" ->
           LET topic == f.loc.existing[1]
               tip_count == count_documents(ps, {<<"topic_id", "$eq", topic.topic_id>>})
           IN Out(Finish(f, 200, "", <<TopicOut(topic, tip_count)>>), ts, ps)

call_get_topic(topic_id) ==
    [Idle EXCEPT !.op = "get_topic", !.pc = "L285", !.req = [topic_id |-> topic_id]]

\* DELETE /api/topics/{topic_id}
delete_topic(f, ts, ps) ==
    LET topic_id == f.req.topic_id IN
    CASE f.pc = "L297" ->
           IF deleted_count(ts, {<<"topic_id", "$eq", topic_id>>}) = 0
           THEN Out(Finish(f, 404, "Topic not found", <<>>),
                    delete_one(ts, {<<"topic_id", "$eq", topic_id>>}), ps)
           ELSE Out(Goto(f, "L300", f.loc),
                    delete_one(ts, {<<"topic_id", "$eq", topic_id>>}), ps)
      [] f.pc = "L300" ->
           Out(Finish(f, 204, "", <<>>), ts,
               delete_many(ps, {<<"topic_id", "$eq", topic_id>>}))

call_delete_topic(topic_id) ==
    [Idle EXCEPT !.op = "delete_topic", !.pc = "L297", !.req = [topic_id |-> topic_id]]

\* variant accepting any stored Topic as the parent
AnyTopic(ts, topic_id) == find_one(ts, {})

\* "Verify topic exists": the Topic the Tip names
parent_topic(ts, topic_id) == find_one(ts, {<<"topic_id", "$eq", topic_id>>})

\* variant ordering the Tips of all Topics as one scope
AllTips(topic_id) == {}

\* "topic_id": tip.topic_id of the three shifts: the scope of a Tip's order
tip_scope(topic_id) == {<<"topic_id", "$eq", topic_id>>}

\* POST /api/tips
create_or_update_tip(f, ts, ps) ==
    LET tip == TipCreate(f.req)
        tip_dict == f.loc.dict[1]
        new_display_order == tip_dict.display_order
    IN
    CASE f.pc = "L317" ->
           LET topic == parent_topic(ts, tip.topic_id) IN
           IF topic = None
           THEN Out(Finish(f, 404, "Topic not found", <<>>), ts, ps)
           ELSE Out(Goto(f, IF tip.tip_id # None THEN "L325" ELSE "L365", f.loc), ts, ps)
      [] f.pc = "L325" ->
           LET existing == find_one(ps, {<<"tip_id", "$eq", tip.tip_id[1]>>}) IN
           IF existing = None
           THEN Out(Finish(f, 404, "Tip not found", <<>>), ts, ps)
           ELSE Out(Goto(f, IF new_display_order # None
                              /\ new_display_order[1] # existing[1].display_order
                            THEN "L336" ELSE "L356",
                         [f.loc EXCEPT !.existing = existing]), ts, ps)
      [] f.pc = "L336" ->
           LET original_display_order == f.loc.existing[1].display_order IN
           IF new_display_order[1] > original_display_order
           THEN Out(Goto(f, "L356", f.loc), ts,
                    update_many_inc(ps, tip_scope(tip.topic_id)
                                        \cup {<<"tip_id", "$ne", tip.tip_id[1]>>}
                                        \cup moved_down(original_display_order,
                                                        new_display_order[1]), -1))
           ELSE Out(Goto(f, "L356", f.loc), ts,
                    update_many_inc(ps, tip_scope(tip.topic_id)
                                        \cup {<<"tip_id", "$ne", tip.tip_id[1]>>}
                                        \cup moved_up(original_display_order,
                                                      new_display_order[1]), 1))
      [] f.pc = "L356" ->
           Out(Goto(f, "L360", f.loc), ts,
               update_one_set(ps, {<<"tip_id", "$eq", tip.tip_id[1]>>},
                              TipDoc(tip_dict, tip.tip_id[1])))
      [] f.pc = "L360" ->
           LET updated_tip == find_one(ps, {<<"tip_id", "$eq", tip.tip_id[1]>>}) IN
           IF updated_tip = None
           THEN Out(Finish(f, 500, "Internal Server Error", <<>>), ts, ps)
           ELSE Out(Finish(f, 201, "", updated_tip), ts, ps)
      [] f.pc = "L365" ->
           LET last_tip == find_one_sort_desc(ps, "tip_id")
               new_tip_id == IF last_tip # None THEN last_tip[1].tip_id + 1 ELSE TipSeed
           IN Out(Goto(f, IF tip_dict.display_order # None THEN "L375" ELSE "L384",
                       [f.loc EXCEPT !.next_id = Some(new_tip_id)]), ts, ps)
      [] f.pc = "L375" ->
           Out(Goto(f, "L387", f.loc), ts,
               update_many_inc(ps, tip_scope(tip.topic_id)
                                   \cup pushed(tip_dict.display_order[1]), 1))
      [] f.pc = "L384" ->
           LET tip_count == count_documents(ps, {<<"topic_id", "$eq", tip.topic_id>>}) IN
           Out(Goto(f, "L387",
                    [f.loc EXCEPT !.dict = Some([tip_dict EXCEPT
                                                  !.display_order = Some(tip_count)])]),
               ts, ps)
      [] f.pc = "L387" ->
           Out(Goto(f, "L388", f.loc), ts, insert_one(ps, TipDoc(tip_dict, f.loc.next_id[1])))
      [] f.pc = "L388" ->
           LET created_tip == find_one(ps, {<<"tip_id", "$eq", f.loc.next_id[1]>>}) IN
           IF created_tip = None
           THEN Out(Finish(f, 500, "Internal Server Error", <<>>), ts, ps)
           ELSE Out(Finish(f, 201, "", created_tip), ts, ps)

call_create_or_update_tip(body) ==
    [Idle EXCEPT !.op = "create_or_update_tip", !.pc = "L317", !.req = body,
                 !.loc = [NoLoc EXCEPT !.dict = Some(TipCreate(body))]]

\* GET /api/topics/{topic_id}/tips
get_tips_by_topic(f, ts, ps) ==
    Out(Finish(f, 200, "", find_sorted(ps, {<<"topic_id", "$eq", f.req.topic_id>>})), ts, ps)

call_get_tips_by_topic(topic_id) ==
    [Idle EXCEPT !.op = "get_tips_by_topic", !.pc = "L393", !.req = [topic_id |-> topic_id]]

\* GET /api/tips/{tip_id}
get_tip(f, ts, ps) ==
    LET tip == find_one(ps, {<<"tip_id", "$eq", f.req.tip_id>>}) IN
    IF tip = None
    THEN Out(Finish(f, 404, "Tip not found", <<>>), ts, ps)
    ELSE Out(Finish(f, 200, "", tip), ts, ps)

call_get_tip(tip_id) ==
    [Idle EXCEPT !.op = "get_tip", !.pc = "L398", !.req = [tip_id |-> tip_id]]

\* variant that closes the gap the deleted Tip leaves in its Topic
DeleteTipAndCompact(f, ts, ps) ==
    LET tip == find_one(ps, {<<"tip_id", "$eq", f.req.tip_id>>}) IN
    IF tip = None
    THEN Out(Finish(f, 404, "Tip not found", <<>>), ts, ps)
    ELSE Out(Finish(f, 204, "", <<>>), ts,
             update_many_inc(delete_one(ps, {<<"tip_id", "$eq", f.req.tip_id>>}),
                             {<<"topic_id", "$eq", tip[1].topic_id>>,
                              <<"display_order", "$gt", tip[1].display_order>>}, -1))

\* DELETE /api/tips/{tip_id}
delete_tip(f, ts, ps) ==
    LET tip_id == f.req.tip_id IN
    IF deleted_count(ps, {<<"tip_id", "$eq", tip_id>>}) = 0
    THEN Out(Finish(f, 404, "Tip not found", <<>>), ts,
             delete_one(ps, {<<"tip_id", "$eq", tip_id>>}))
    ELSE Out(Finish(f, 204, "", <<>>), ts, delete_one(ps, {<<"tip_id", "$eq", tip_id>>}))

call_delete_tip(tip_id) ==
    [Idle EXCEPT !.op = "delete_tip", !.pc = "L405", !.req = [tip_id |-> tip_id]]

(* ---------------------- Relevance Search Engine ----------------------- *)
\* find({"$or": alternatives}).skip(skip).limit(limit).to_list(length=None), in
\* natural order; a limit of 0 is no limit, a negative one its absolute value
find_or_skip_limit(coll, alternatives, skip, limit) ==
    LET Hit(d) == \E a \in alternatives : Matches(d, a)
        hits == SelectSeq(coll, Hit)
        rest == SubSeq(hits, skip + 1, Len(hits))
        n == IF limit = 0 THEN Len(rest) ELSE IF limit < 0 THEN 0 - limit ELSE limit
    IN SubSeq(rest, 1, IF n < Len(rest) THEN n ELSE Len(rest))

\* the "$or" of the two case-insensitive regex conditions
search_query(q) ==
    {{<<"title", "$regex", <<q, "i">>>>}, {<<"description", "$regex", <<q, "i">>>>}}

\* str(value) of an ObjectId or an int: the text that names the value
ToStr(value) == <<"str()", value>>

\* the three-tier score from the positions of the query in title and description
relevance(title_match, desc_match) ==
    IF title_match = 0 THEN ScoreTitleStart
    ELSE IF title_match > 0 THEN ScoreTitleLater
    ELSE IF desc_match >= 0 THEN ScoreDescription
    ELSE ScoreInitial

topic_result(topic, q) ==
    [type |-> "topic", id |-> ToStr(topic["_id"]), title |-> topic.title,
     description |-> topic.description, topic_id |-> None, topic_title |-> None,
     relevance_score |-> relevance(find(lower(Chars(topic.title)), lower(q)),
                                   find(lower(Chars(topic.description)), lower(q)))]

\* topic is what find_one gave for the parent: None or the Topic
tip_result(tip, topic, q) ==
    [type |-> "tip", id |-> ToStr(tip["_id"]), title |-> tip.title,
     description |-> tip.description, topic_id |-> ToStr(tip.topic_id),
     topic_title |-> IF topic # None THEN topic[1].title ELSE None,
     relevance_score |-> relevance(find(lower(Chars(tip.title)), lower(q)),
                                   find(lower(Chars(tip.description)), lower(q)))]

\* variant with the sort left out
Unsorted(results) == results

\* results.sort(key=lambda x: x.relevance_score, reverse=True): stable
RECURSIVE sort_by_relevance(_)
sort_by_relevance(results) ==
    IF results = <<>> THEN <<>>
    ELSE LET k == CHOOSE i \in DOMAIN results :
                    /\ \A j \in DOMAIN results :
                          results[j].relevance_score <= results[i].relevance_score
                    /\ \A j \in 1..(i - 1) :
                          results[j].relevance_score # results[i].relevance_score
             rest == [i \in 1..(Len(results) - 1) |->
                        IF i < k THEN results[i] ELSE results[i + 1]]
         IN <<results[k]>> \o sort_by_relevance(rest)

SearchResponse(f, results) ==
    Finish(f, 200, "",
           <<[results |-> sort_by_relevance(results), total_count |-> Len(results),
              query |-> f.req.q, limit |-> f.req.limit, offset |-> f.req.offset]>>)

\* GET /api/search
search(f, ts, ps) ==
    LET q == f.req.q IN
    CASE f.pc = "L439" ->
           Out(Goto(f, "L444",
                    [topic_results |-> find_or_skip_limit(ts, search_query(q),
                                                          f.req.offset, f.req.limit),
                     tip_results |-> <<>>, results |-> <<>>]), ts, ps)
      [] f.pc = "L444" ->
           LET topic_results == f.loc.topic_results
               tip_results == find_or_skip_limit(ps, search_query(q),
                                                 f.req.offset, f.req.limit)
           IN
           \* topic.get("description", "") is None for a stored null, and
           \* None.lower() raises AttributeError
           IF \E i \in DOMAIN topic_results : topic_results[i].description = None
           THEN Out(Finish(f, 500, "Internal Server Error", <<>>), ts, ps)
           ELSE LET results == [i \in DOMAIN topic_results |->
                                  topic_result(topic_results[i], q)] IN
                IF tip_results = <<>>
                THEN Out(SearchResponse(f, results), ts, ps)
                ELSE Out(Goto(f, "L472", [f.loc EXCEPT !.tip_results = tip_results,
                                                       !.results = results]), ts, ps)
      [] f.pc = "L472" ->
           LET tip == Head(f.loc.tip_results)
               topic == find_one(ts, {<<"_id", "$eq", tip.topic_id>>})
               results == Append(f.loc.results, tip_result(tip, topic, q))
           IN
           IF Tail(f.loc.tip_results) = <<>>
           THEN Out(SearchResponse(f, results), ts, ps)
           ELSE Out(Goto(f, "L472", [f.loc EXCEPT !.tip_results = Tail(@),
                                                  !.results = results]), ts, ps)

call_search(q, limit, offset) ==
    [Idle EXCEPT !.op = "search", !.pc = "L439",
                 !.req = [q |-> q, limit |-> limit, offset |-> offset]]

(* --------------------------- dispatch --------------------------------- *)
Step(f, ts, ps) ==
    CASE f.op = "create_or_update_topic" -> create_or_update_topic(f, ts, ps)
      [] f.op = "delete_topic" -> delete_topic(f, ts, ps)
      [] f.op = "create_or_update_tip" -> create_or_update_tip(f, ts, ps)
      [] f.op = "get_tips_by_topic" -> get_tips_by_topic(f, ts, ps)
      [] f.op = "delete_tip" -> delete_tip(f, ts, ps)
      [] f.op = "search" -> search(f, ts, ps)
      [] f.op = "get_topic" -> get_topic(f, ts, ps)
      [] f.op = "get_tip" -> get_tip(f, ts, ps)

\* a request run from its call to its response with no other request in between
RECURSIVE Run(_)
Run(o) == IF o.f.pc = "done" THEN o ELSE Run(Step(o.f, o.topics, o.tips))

(* ------------------------ serialized service -------------------------- *)
TopicIds(ts) == {ts[i].topic_id : i \in DOMAIN ts}
TipIds(ps) == {ps[i].tip_id : i \in DOMAIN ps}

Procs == {1, 2}

WithinBounds(ts, ps) ==
    /\ Len(ts) + Len(ps) <= MaxDocs
    /\ \A i \in DOMAIN ts : ts[i].topic_id <= MaxTopicIds /\ ts[i].display_order <= MaxOrder
    /\ \A i \in DOMAIN ps : ps[i].tip_id < TipSeed + MaxTipIds /\ ps[i].display_order <= MaxOrder

OrderInputs == {None} \cup {Some(k) : k \in 0..MaxOrder}
TopicIdInputs == {None, Some(0)} \cup {Some(k) : k \in 1..MaxTopicIds}

TopicBodies ==
    [topic_id : TopicIdInputs, title : Titles, description : TopicDescriptions,
     display_order : OrderInputs]

TipIdInputs == {None} \cup {Some(k) : k \in TipSeed..(TipSeed + MaxTipIds - 1)}

TipBodies ==
    [tip_id : TipIdInputs, topic_id : 1..MaxTopicIds, title : Titles,
     description : TipDescriptions, display_order : OrderInputs]

\* issued is history only: the topic_id and tip_id values SpecIds has seen
\* stored so far; the other specifications leave it empty
NoneIssued == [topic_id |-> {}, tip_id |-> {}]

\* a request is served once the response of the previous one has been sent
Ready == last = Idle

Serve(f) ==
    /\ \E o \in {Run(Out(f, topics, tips))} :
          /\ WithinBounds(o.topics, o.tips)
          /\ topics' = o.topics
          /\ tips' = o.tips
          /\ last' = [o.f EXCEPT !.pre = Some([topics |-> topics, tips |-> tips])]
    /\ UNCHANGED <<rq, issued>>

\* the response is sent
Reply ==
    /\ ~Ready
    /\ last' = Idle
    /\ UNCHANGED <<topics, tips, rq, issued>>

CreateOrUpdateTopic ==
    /\ Ready
    /\ \E body \in TopicBodies : Serve(call_create_or_update_topic(body))

DeleteTopic ==
    /\ Ready
    /\ \E id \in 1..MaxTopicIds : Serve(call_delete_topic(id))

CreateOrUpdateTip ==
    /\ Ready
    /\ \E body \in TipBodies : Serve(call_create_or_update_tip(body))

GetTipsByTopic ==
    /\ Ready
    /\ \E id \in 1..MaxTopicIds : Serve(call_get_tips_by_topic(id))

DeleteTip ==
    /\ Ready
    /\ \E id \in TipSeed..(TipSeed + MaxTipIds - 1) : Serve(call_delete_tip(id))

GetTopic ==
    /\ Ready
    /\ \E id \in 1..MaxTopicIds : Serve(call_get_topic(id))

GetTip ==
    /\ Ready
    /\ \E id \in TipSeed..(TipSeed + MaxTipIds - 1) : Serve(call_get_tip(id))

Init ==
    /\ topics = <<>>
    /\ tips = <<>>
    /\ last = Idle
    /\ rq = [p \in Procs |-> Idle]
    /\ issued = NoneIssued

Next ==
    \/ CreateOrUpdateTopic
    \/ DeleteTopic
    \/ CreateOrUpdateTip
    \/ GetTipsByTopic
    \/ DeleteTip
    \/ GetTopic
    \/ GetTip
    \/ Reply

Spec == Init /\ [][Next]_vars

(* ------------------------------ properties ---------------------------- *)
Range(coll) == {coll[i] : i \in DOMAIN coll}

TipsOf(ps, topic_id) == LET InTopic(t) == t.topic_id = topic_id IN SelectSeq(ps, InTopic)

\* the n members of a scope hold exactly 0..n-1, each once
DenseScope(coll) ==
    \A k \in 0..(Len(coll) - 1) :
        Cardinality({i \in DOMAIN coll : coll[i].display_order = k}) = 1

OrderOf(coll, key, id) == (CHOOSE d \in Range(coll) : d[key] = id).display_order

Keys(coll, key) == {d[key] : d \in Range(coll)}

\* the request Spec served last, the store it found, and what it asked for
Pre == last.pre[1]
Answered(op) == last.op = op /\ last.pc = "done"
Explicit == last.req.display_order # None
Asked == last.req.display_order[1]

TopicUpdate ==
    /\ Answered("create_or_update_topic")
    /\ Truthy(last.req.topic_id)
    /\ last.req.topic_id[1] \in TopicIds(Pre.topics)

TopicCreation == Answered("create_or_update_topic") /\ ~Truthy(last.req.topic_id)

TipUpdate ==
    /\ Answered("create_or_update_tip")
    /\ last.req.topic_id \in TopicIds(Pre.topics)
    /\ last.req.tip_id # None
    /\ last.req.tip_id[1] \in TipIds(Pre.tips)

TipCreation ==
    /\ Answered("create_or_update_tip")
    /\ last.req.topic_id \in TopicIds(Pre.topics)
    /\ last.req.tip_id = None

\* C1: after each operation the display_order values of every scope (all
\* Topics; the Tips of one topic_id) are exactly 0..n-1. The code breaks it.
C1_DensityInvariant ==
    /\ DenseScope(topics)
    /\ \A T \in {t.topic_id : t \in Range(tips)} : DenseScope(TipsOf(tips, T))

\* the move of member id of a scope from its key to new
MoveHolds(before, after, key, id, new) ==
    LET old == OrderOf(before, key, id) IN
    /\ Len(after) = Len(before)
    /\ Keys(after, key) = Keys(before, key)
    /\ OrderOf(after, key, id) = new
    /\ \A d \in Range(before) :
          d[key] # id =>
             OrderOf(after, key, d[key]) =
                IF new > old /\ d.display_order > old /\ d.display_order <= new
                THEN d.display_order - 1
                ELSE IF new < old /\ d.display_order >= new /\ d.display_order < old
                     THEN d.display_order + 1
                     ELSE d.display_order
    /\ DenseScope(after)

\* C2: in a scope holding 0..n-1, an update of one member to new, 0 <= new <= n-1
\* (same topic_id for a Tip), puts it at new, lowers by 1 the others in
\* (old, new], raises by 1 the others in [new, old), leaves the rest, and the
\* scope holds 0..n-1 again.
C2_MoveCorrectness ==
    /\ (/\ TopicUpdate
        /\ Explicit
        /\ DenseScope(Pre.topics)
        /\ Asked <= Len(Pre.topics) - 1)
       => MoveHolds(Pre.topics, topics, "topic_id", last.req.topic_id[1], Asked)
    /\ (/\ TipUpdate
        /\ Explicit
        /\ \E t \in Range(Pre.tips) :
              t.tip_id = last.req.tip_id[1] /\ t.topic_id = last.req.topic_id
        /\ DenseScope(TipsOf(Pre.tips, last.req.topic_id))
        /\ Asked <= Len(TipsOf(Pre.tips, last.req.topic_id)) - 1)
       => MoveHolds(TipsOf(Pre.tips, last.req.topic_id), TipsOf(tips, last.req.topic_id),
                    "tip_id", last.req.tip_id[1], Asked)

\* Tips A(0), B(1), C(2) of one Topic; A updated to 2 gives B 0, C 1, A 2
C2_Witness ==
    /\ TipUpdate
    /\ last.req.tip_id = Some(TipSeed)
    /\ Explicit
    /\ Asked = 2
    /\ [i \in DOMAIN Pre.tips |-> Pre.tips[i].display_order] = <<0, 1, 2>>
    /\ [i \in DOMAIN tips |-> tips[i].display_order] = <<2, 0, 1>>
    /\ \A t \in Range(Pre.tips) \cup Range(tips) : t.topic_id = last.req.topic_id

\* the insertion of member id at key k into a scope
InsertHolds(before, after, key, id, k) ==
    /\ id \notin Keys(before, key)
    /\ Len(after) = Len(before) + 1
    /\ Keys(after, key) = Keys(before, key) \cup {id}
    /\ OrderOf(after, key, id) = k
    /\ \A d \in Range(before) :
          OrderOf(after, key, d[key]) =
             IF d.display_order >= k THEN d.display_order + 1 ELSE d.display_order
    /\ DenseScope(after)
    /\ \A a, b \in Range(before) :
          a.display_order < b.display_order
             => OrderOf(after, key, a[key]) < OrderOf(after, key, b[key])

\* C3: a create with explicit display_order k, 0 <= k <= n, in a scope holding
\* 0..n-1 raises by 1 exactly the members with key >= k, stores the new member
\* at k, and the scope holds 0..n with the old members in their old order.
C3_InsertExplicitKey ==
    /\ (/\ TopicCreation
        /\ Explicit
        /\ DenseScope(Pre.topics)
        /\ Asked <= Len(Pre.topics))
       => /\ last.resp.status = 201
          /\ InsertHolds(Pre.topics, topics, "topic_id", last.resp.body[1].topic_id, Asked)
    /\ (/\ TipCreation
        /\ Explicit
        /\ DenseScope(TipsOf(Pre.tips, last.req.topic_id))
        /\ Asked <= Len(TipsOf(Pre.tips, last.req.topic_id)))
       => /\ last.resp.status = 201
          /\ InsertHolds(TipsOf(Pre.tips, last.req.topic_id),
                         TipsOf(tips, last.req.topic_id),
                         "tip_id", last.resp.body[1].tip_id, Asked)

\* a Tip created at 1 between the Tips at 0 and 1 of its Topic
C3_Witness ==
    /\ TipCreation
    /\ Explicit
    /\ Asked = 1
    /\ [i \in DOMAIN Pre.tips |-> Pre.tips[i].display_order] = <<0, 1>>
    /\ [i \in DOMAIN tips |-> tips[i].display_order] = <<0, 2, 1>>
    /\ \A t \in Range(tips) : t.topic_id = last.req.topic_id

\* C4: a create whose request carries no display_order stores the new member
\* at the size its scope had before, and changes no other member. The code
\* stores it at the field's default instead.
C4_AppendAtScopeSize ==
    /\ (TopicCreation /\ ~Explicit)
       => /\ last.resp.status = 201
          /\ last.resp.body[1].display_order = Len(Pre.topics)
          /\ topics = Append(Pre.topics, topics[Len(topics)])
    /\ (TipCreation /\ ~Explicit)
       => /\ last.resp.status = 201
          /\ last.resp.body[1].display_order = Len(TipsOf(Pre.tips, last.req.topic_id))
          /\ tips = Append(Pre.tips, tips[Len(tips)])

\* C5: an upsert of a Tip whose topic_id matches no stored Topic is answered
\* 404 "Topic not found" and leaves both collections as they were (no Tip
\* inserted, changed or shifted; the next tip_id, read from the store, is the same).
C5_ParentCheck ==
    (/\ Answered("create_or_update_tip")
     /\ last.req.topic_id \notin TopicIds(Pre.topics))
    => /\ last.resp.status = 404
       /\ last.resp.detail = "Topic not found"
       /\ topics = Pre.topics
       /\ tips = Pre.tips

C5_Witness ==
    /\ Answered("create_or_update_tip")
    /\ last.req.topic_id \notin TopicIds(Pre.topics)
    /\ last.req.tip_id = None
    /\ last.resp.status = 404
    /\ \E t \in Range(tips) : t.display_order >= TipCreate(last.req).display_order[1]

\* C6: the delete of a stored Topic T removes T and the Tips of T, nothing
\* else, and get_tips_by_topic(T) then returns the empty list.
C6_Cascade ==
    (/\ Answered("delete_topic")
     /\ last.req.topic_id \in TopicIds(Pre.topics))
    => /\ last.resp.status = 204
       /\ Range(topics) = {d \in Range(Pre.topics) : d.topic_id # last.req.topic_id}
       /\ Len(topics) = Len(Pre.topics) - 1
       /\ Range(tips) = {t \in Range(Pre.tips) : t.topic_id # last.req.topic_id}
       /\ Len(tips) = Len(Pre.tips) - Len(TipsOf(Pre.tips, last.req.topic_id))
       /\ get_tips_by_topic(call_get_tips_by_topic(last.req.topic_id),
                            topics, tips).f.resp.body = <<>>

\* a Topic deleted with its two Tips
C6_Witness ==
    /\ Answered("delete_topic")
    /\ last.resp.status = 204
    /\ Len(TipsOf(Pre.tips, last.req.topic_id)) = 2
    /\ topics # <<>>

MaxKey(coll, key) == CHOOSE k \in Keys(coll, key) : \A j \in Keys(coll, key) : j <= k

Unique(coll, key) == Cardinality(Keys(coll, key)) = Len(coll)

\* C7: served one at a time, a create gives the new entity the seed of its
\* type (1, 2001) when the collection is empty and the largest stored ID plus 1
\* otherwise, and no two stored entities of a type share an ID.
C7_IdAllocation ==
    /\ TopicCreation
       => /\ last.resp.status = 201
          /\ last.resp.body[1].topic_id =
                IF Pre.topics = <<>> THEN 1 ELSE MaxKey(Pre.topics, "topic_id") + 1
          /\ last.resp.body[1] \notin Range(Pre.topics)
          /\ \E d \in Range(topics) : d.topic_id = last.resp.body[1].topic_id
    /\ TipCreation
       => /\ last.resp.status = 201
          /\ last.resp.body[1].tip_id =
                IF Pre.tips = <<>> THEN 2001 ELSE MaxKey(Pre.tips, "tip_id") + 1
          /\ last.resp.body[1] \in Range(tips) \ Range(Pre.tips)
    /\ Unique(topics, "topic_id")
    /\ Unique(tips, "tip_id")

\* the third of three Tips created in an empty collection
C7_Witness ==
    /\ TipCreation
    /\ [i \in DOMAIN Pre.tips |-> Pre.tips[i].tip_id] = <<2001, 2002>>
    /\ [i \in DOMAIN tips |-> tips[i].tip_id] = <<2001, 2002, 2003>>
    /\ last.resp.body[1].tip_id = 2003

\* C10: an upsert of a Topic whose topic_id matches no stored Topic creates a
\* new Topic (tipCount 0) instead of failing. The code answers 404.
C10_UnknownTopicIdCreates ==
    (/\ Answered("create_or_update_topic")
     /\ last.req.topic_id # None
     /\ last.req.topic_id[1] \notin TopicIds(Pre.topics))
    => /\ last.resp.status = 201
       /\ Len(topics) = Len(Pre.topics) + 1
       /\ last.resp.body[1].tipCount = 0
       /\ last.resp.body[1].topic_id \in TopicIds(topics) \ TopicIds(Pre.topics)

(* ------------------------ concurrent service -------------------------- *)
\* The event loop runs one handler until its next await; the store call it
\* awaits is atomic, and any other request may run before it resumes.
InFlight(f) == f.pc \notin {"idle", "done"}

ConcTopicBodies ==
    [topic_id : {None} \cup {Some(k) : k \in 1..ConcSize}, title : Titles,
     description : TopicDescriptions,
     display_order : {None} \cup {Some(k) : k \in 0..(ConcSize - 1)}]

ConcTipBodies ==
    [tip_id : {None} \cup {Some(k) : k \in TipSeed..(TipSeed + ConcSize - 1)},
     topic_id : {1, 2}, title : Titles, description : TipDescriptions,
     display_order : {None} \cup {Some(k) : k \in 0..(ConcSize - 1)}]

\* request p arrives; overlapped records that another request was in flight
Arrive(p, f) ==
    /\ rq[p].pc = "idle"
    /\ rq' = [rq EXCEPT ![p] =
                [f EXCEPT !.overlapped = \E q \in Procs \ {p} : InFlight(rq[q])]]
    /\ UNCHANGED <<topics, tips, last, issued>>

ArriveTopic(p) == \E body \in ConcTopicBodies : Arrive(p, call_create_or_update_topic(body))

ArriveTip(p) == \E body \in ConcTipBodies : Arrive(p, call_create_or_update_tip(body))

ArriveDeleteTopic(p) == \E id \in {1, 2} : Arrive(p, call_delete_topic(id))

\* request p runs up to and including its next store call
Resume(p) ==
    /\ InFlight(rq[p])
    /\ \E o \in {Step(rq[p], topics, tips)} :
          /\ topics' = o.topics
          /\ tips' = o.tips
          /\ rq' = [rq EXCEPT ![p] =
                      [o.f EXCEPT !.overlapped =
                          @ \/ \E q \in Procs \ {p} : InFlight(rq[q])]]
    /\ UNCHANGED <<last, issued>>

\* ConcSize Topics at 0..ConcSize-1, and ConcSize Tips of Topic 1 at 0..ConcSize-1
InitConc ==
    /\ topics = [i \in 1..ConcSize |->
                   [_id |-> ObjectId(i), topic_id |-> i, title |-> "Project Management",
                    description |-> None, display_order |-> i - 1]]
    /\ tips = [i \in 1..ConcSize |->
                 [_id |-> ObjectId(i), tip_id |-> TipSeed + i - 1, topic_id |-> 1,
                  title |-> "Project Management",
                  description |-> "To create a new project", display_order |-> i - 1]]
    /\ last = Idle
    /\ rq = [p \in Procs |-> Idle]
    /\ issued = NoneIssued

NextConc ==
    \E p \in Procs :
        \/ ArriveTopic(p)
        \/ ArriveTip(p)
        \/ ArriveDeleteTopic(p)
        \/ Resume(p)

SpecConc == InitConc /\ [][NextConc]_vars
(* ------------------------ concurrent properties ----------------------- *)
AllDone == \A p \in Procs : rq[p].pc = "done"

Overlap == \E p \in Procs : rq[p].overlapped

Copies(coll, key, id) == Cardinality({i \in DOMAIN coll : coll[i][key] = id})

BothCreate(op, key) ==
    \A p \in Procs : rq[p].op = op /\ rq[p].req[key] = None /\ rq[p].loc.next_id # None

\* C8: two concurrent creates of one type can read the same largest ID before
\* either inserts, and then both entities are stored under the same ID:
\* whenever two completed creates computed the same next ID, the collection
\* holds two documents with it.
C8_SameIdStoredTwice ==
    /\ (AllDone /\ BothCreate("create_or_update_topic", "topic_id")
        /\ rq[1].loc.next_id = rq[2].loc.next_id)
       => Copies(topics, "topic_id", rq[1].loc.next_id[1]) = 2
    /\ (AllDone /\ BothCreate("create_or_update_tip", "tip_id")
        /\ rq[1].loc.next_id = rq[2].loc.next_id)
       => Copies(tips, "tip_id", rq[1].loc.next_id[1]) = 2

\* two overlapping Topic creates, both answered 201 with the same topic_id
C8_Witness ==
    /\ AllDone
    /\ Overlap
    /\ BothCreate("create_or_update_topic", "topic_id")
    /\ \A p \in Procs : rq[p].resp.status = 201
    /\ rq[1].resp.body[1].topic_id = rq[2].resp.body[1].topic_id
    /\ ~Unique(topics, "topic_id")

\* both requests update the display_order of different stored members of one
\* scope (the Topics, or the Tips of Topic 1) to keys within 0..n-1
BothMove(op, key) ==
    /\ \A p \in Procs :
          /\ rq[p].op = op
          /\ rq[p].req[key] # None
          /\ rq[p].req[key][1] \in (IF key = "tip_id" THEN TipSeed ELSE 1)
                                    ..((IF key = "tip_id" THEN TipSeed ELSE 1) + ConcSize - 1)
          /\ rq[p].req.display_order # None
          /\ rq[p].req.display_order[1] \in 0..(ConcSize - 1)
          /\ key = "tip_id" => rq[p].req.topic_id = 1
    /\ rq[1].req[key] # rq[2].req[key]

\* C9: two concurrent order-changing updates of different members of a scope
\* holding 0..n-1 can leave it with a duplicate or a gap, although run one
\* after the other they leave it holding 0..n-1.
C9_SerialMovesKeepDensity ==
    /\ (AllDone /\ ~Overlap /\ BothMove("create_or_update_topic", "topic_id"))
       => DenseScope(topics)
    /\ (AllDone /\ ~Overlap /\ BothMove("create_or_update_tip", "tip_id"))
       => DenseScope(TipsOf(tips, 1))

\* two overlapping Tip updates, both answered 201, each to another key than the
\* Tip had, and the scope is left with a duplicate or a gap
C9_Witness ==
    /\ AllDone
    /\ Overlap
    /\ BothMove("create_or_update_tip", "tip_id")
    /\ \A p \in Procs :
          /\ rq[p].resp.status = 201
          /\ rq[p].req.display_order[1] # rq[p].req.tip_id[1] - TipSeed
    /\ Len(TipsOf(tips, 1)) = ConcSize
    /\ ~DenseScope(TipsOf(tips, 1))

(* ------------- serialized service, any integer order key -------------- *)
\* display_order is an int with no constraint (lines 79 and 126): a request may
\* carry a negative one. SpecAnyOrder serves such requests too, on a store one
\* document smaller than that of Spec.
AnyOrderInputs == OrderInputs \cup {Some(0 - 1)}

AnyOrderTopicBodies ==
    [topic_id : TopicIdInputs, title : Titles, description : TopicDescriptions,
     display_order : AnyOrderInputs]

AnyOrderTipBodies ==
    [tip_id : TipIdInputs, topic_id : 1..MaxTopicIds, title : Titles,
     description : TipDescriptions, display_order : AnyOrderInputs]

CreateOrUpdateTopicAnyOrder ==
    /\ Ready
    /\ \E body \in AnyOrderTopicBodies : Serve(call_create_or_update_topic(body))
    /\ Len(topics') + Len(tips') < MaxDocs

CreateOrUpdateTipAnyOrder ==
    /\ Ready
    /\ \E body \in AnyOrderTipBodies : Serve(call_create_or_update_tip(body))
    /\ Len(topics') + Len(tips') < MaxDocs

NextAnyOrder ==
    \/ CreateOrUpdateTopicAnyOrder
    \/ CreateOrUpdateTipAnyOrder
    \/ DeleteTopic
    \/ DeleteTip
    \/ Reply

SpecAnyOrder == Init /\ [][NextAnyOrder]_vars

(* ------------------- serialized service with search ------------------- *)
\* SpecSearch creates Topics and Tips whose texts a query can tell apart and
\* searches them, on a store one document smaller than that of Spec.
SearchTitles == {Str(<<"P", "x">>), Str(<<"x", "p">>), Str(<<"x", "x">>)}
SearchTopicDescriptions == {None, Str(<<"p">>)}
SearchTipDescriptions == {Str(<<"p">>), Str(<<"x">>)}
Queries == {<<"P">>, <<".">>}

SearchTopicBodies ==
    [topic_id : {None}, title : SearchTitles, description : SearchTopicDescriptions,
     display_order : {None}]

SearchTipBodies ==
    [tip_id : {None}, topic_id : 1..MaxTopicIds, title : SearchTitles,
     description : SearchTipDescriptions, display_order : {None}]

CreateTopicText ==
    /\ Ready
    /\ \E body \in SearchTopicBodies : Serve(call_create_or_update_topic(body))
    /\ Len(topics') + Len(tips') < MaxDocs

CreateTipText ==
    /\ Ready
    /\ \E body \in SearchTipBodies : Serve(call_create_or_update_tip(body))
    /\ Len(topics') + Len(tips') < MaxDocs

Search ==
    /\ Ready
    /\ \E q \in Queries, limit \in {DefaultLimit, 1}, offset \in {DefaultOffset, 1} :
          Serve(call_search(q, limit, offset))

NextSearch ==
    \/ CreateTopicText
    \/ CreateTipText
    \/ Search
    \/ Reply

SpecSearch == Init /\ [][NextSearch]_vars

(* --------------------------- search properties ------------------------ *)
\* the query occurs in the text at index i (from 0), case ignored
OccursAt(text, q, i) ==
    /\ i + Len(q) <= Len(Chars(text))
    /\ \A j \in 1..Len(q) : LowerChar(Chars(text)[i + j]) = LowerChar(q[j])

OccursIn(text, q) == \E i \in 0..Len(Chars(text)) : OccursAt(text, q, i)

Searched == Answered("search") /\ last.resp.status = 200
Results == last.resp.body[1].results

\* where the document of a result stands in its collection before the search
FetchIndex(r) ==
    LET coll == IF r.type = "topic" THEN Pre.topics ELSE Pre.tips IN
    CHOOSE i \in DOMAIN coll : ToStr(coll[i]["_id"]) = r.id

\* C12: a hit is scored 1.0 (10 tenths) when the query occurs at position 0 of
\* its title, 0.8 when it occurs in the title only later, 0.6 when it occurs
\* only in the description; the list is sorted by score descending, and among
\* equal scores Topic hits precede Tip hits, each kind in fetch order.
C12_SearchScoringAndRanking ==
    Searched =>
      LET q == last.req.q IN
      /\ \A i \in DOMAIN Results :
            LET r == Results[i] IN
            /\ OccursAt(r.title, q, 0) => r.relevance_score = 10
            /\ (~OccursAt(r.title, q, 0) /\ OccursIn(r.title, q)) => r.relevance_score = 8
            /\ (~OccursIn(r.title, q) /\ OccursIn(r.description, q))
                 => r.relevance_score = 6
      /\ \A i, j \in DOMAIN Results :
            i < j =>
              /\ Results[i].relevance_score >= Results[j].relevance_score
              /\ Results[i].relevance_score = Results[j].relevance_score
                   => /\ ~(Results[i].type = "tip" /\ Results[j].type = "topic")
                      /\ Results[i].type = Results[j].type
                           => FetchIndex(Results[i]) < FetchIndex(Results[j])

\* query "P": a Topic titled "Px" (1.0) ranks above a Tip titled "Px" (1.0, a
\* tie), and both above a Tip titled "xp" (0.8) that was stored first
C12_Witness ==
    /\ Searched
    /\ last.req.q = <<"P">>
    /\ Len(Results) = 3
    /\ [i \in 1..3 |-> Results[i].type] = <<"topic", "tip", "tip">>
    /\ [i \in 1..3 |-> Results[i].relevance_score] = <<10, 10, 8>>
    /\ [i \in 1..3 |-> Results[i].title] =
          <<Str(<<"P", "x">>), Str(<<"P", "x">>), Str(<<"x", "p">>)>>
    /\ Pre.tips[1].title = Str(<<"x", "p">>)

\* C13: the topic_title of a Tip hit is the title of the stored Topic its
\* topic_id names, and null only when no Topic of that topic_id is stored. The
\* code looks the parent up by _id, which no topic_id equals, and answers null.
C13_ParentTitleResolved ==
    Searched =>
      \A i \in DOMAIN Results :
         Results[i].type = "tip" =>
            \A t \in Range(Pre.topics) :
               ToStr(t.topic_id) = Results[i].topic_id
                  => Results[i].topic_title = t.title

\* C21: a search whose page takes in every hit completes when a stored Topic
\* without description (stored as null) matches the query by its title, and
\* returns that Topic scored from the title match. The code ends in an error:
\* it lowers the stored null.
C21_NullDescriptionTolerated ==
    (/\ Answered("search")
     /\ last.req.limit = DefaultLimit
     /\ last.req.offset = DefaultOffset)
    => \A t \in Range(Pre.topics) :
          (t.description = None /\ OccursIn(t.title, last.req.q))
          => IF last.resp.status # 200 THEN FALSE
             ELSE \E i \in DOMAIN Results :
                     /\ Results[i].type = "topic"
                     /\ Results[i].id = ToStr(t["_id"])
                     /\ Results[i].relevance_score =
                          (IF OccursAt(t.title, last.req.q, 0) THEN 10 ELSE 8)

(* ------------- serialized service, history of the IDs ----------------- *)
\* SpecIds creates and deletes Topics and Tips and records every ID a stored
\* document has held; issued_before is the record as the request found it.
ServeRecording(f) ==
    /\ \E o \in {Run(Out(f, topics, tips))} :
          /\ WithinBounds(o.topics, o.tips)
          /\ topics' = o.topics
          /\ tips' = o.tips
          /\ last' = [o.f EXCEPT !.pre = Some([topics |-> topics, tips |-> tips,
                                               issued_before |-> issued])]
          /\ issued' = [topic_id |-> issued.topic_id \cup TopicIds(o.topics),
                        tip_id |-> issued.tip_id \cup TipIds(o.tips)]
    /\ UNCHANGED rq

CreateTopicRecorded ==
    /\ Ready
    /\ \E body \in {b \in TopicBodies : b.topic_id = None /\ b.display_order = None} :
          ServeRecording(call_create_or_update_topic(body))

CreateTipRecorded ==
    /\ Ready
    /\ \E body \in {b \in TipBodies : b.tip_id = None /\ b.display_order = None} :
          ServeRecording(call_create_or_update_tip(body))

DeleteTopicRecorded ==
    /\ Ready
    /\ \E id \in 1..MaxTopicIds : ServeRecording(call_delete_topic(id))

DeleteTipRecorded ==
    /\ Ready
    /\ \E id \in TipSeed..(TipSeed + MaxTipIds - 1) : ServeRecording(call_delete_tip(id))

NextIds ==
    \/ CreateTopicRecorded
    \/ CreateTipRecorded
    \/ DeleteTopicRecorded
    \/ DeleteTipRecorded
    \/ Reply

SpecIds == Init /\ [][NextIds]_vars

\* C20: an ID once given to a Topic (or Tip) is never given to another one,
\* also after the holder of the largest ID was deleted: a creation never
\* returns an ID that a stored document held before. The code gives the
\* largest stored ID plus one, so a deleted largest ID is given again.
C20_StableIdentity ==
    /\ (TopicCreation /\ last.resp.status = 201)
       => last.resp.body[1].topic_id \notin Pre.issued_before.topic_id
    /\ (TipCreation /\ last.resp.status = 201)
       => last.resp.body[1].tip_id \notin Pre.issued_before.tip_id

(* ---------------------- error handling and frames --------------------- *)
\* C11: a create or update of a Topic or Tip carrying a negative display_order
\* is rejected as InvalidOrderKey and changes nothing stored. The code has no
\* such check: it stores the negative key.
C11_NegativeOrderRejected ==
    (/\ Answered("create_or_update_topic") \/ Answered("create_or_update_tip")
     /\ Explicit
     /\ Asked < 0)
    => /\ last.resp.status >= 400
       /\ last.resp.detail = "InvalidOrderKey"
       /\ topics = Pre.topics
       /\ tips = Pre.tips

\* C14: deleting a stored Tip removes that Tip alone: every Topic and every
\* other Tip, the display_order of the Tips of the same topic_id included,
\* stays as it was.
C14_TipDeletionFrame ==
    (Answered("delete_tip") /\ last.req.tip_id \in TipIds(Pre.tips))
    => LET Other(t) == t.tip_id # last.req.tip_id IN
       /\ last.resp.status = 204
       /\ topics = Pre.topics
       /\ Len(tips) = Len(Pre.tips) - 1
       /\ tips = SelectSeq(Pre.tips, Other)

\* a Tip was deleted from below another Tip of its Topic, whose key stays
C14_Witness ==
    /\ Answered("delete_tip")
    /\ last.resp.status = 204
    /\ \E d \in Range(Pre.tips), t \in Range(tips) :
          /\ d.tip_id = last.req.tip_id
          /\ t.topic_id = d.topic_id
          /\ t.display_order > d.display_order

\* the display_order the handler reads from the request (the default if omitted)
Requested == IF Explicit THEN Asked ELSE DefaultDisplayOrder

\* the members of a collection other than id are as they were
OthersKept(before, after, key, id) ==
    /\ Len(after) = Len(before)
    /\ \A i \in DOMAIN before : before[i][key] # id => after[i] = before[i]

\* C15: an update of a Topic or Tip whose requested display_order equals the
\* stored one shifts nothing: every other member of the store is unchanged.
C15_NoOpReorder ==
    /\ (/\ TopicUpdate
        /\ Requested = OrderOf(Pre.topics, "topic_id", last.req.topic_id[1]))
       => /\ OthersKept(Pre.topics, topics, "topic_id", last.req.topic_id[1])
          /\ tips = Pre.tips
    /\ (/\ TipUpdate
        /\ Requested = OrderOf(Pre.tips, "tip_id", last.req.tip_id[1]))
       => /\ OthersKept(Pre.tips, tips, "tip_id", last.req.tip_id[1])
          /\ topics = Pre.topics

\* a Tip of a Topic with several Tips was updated to the key it had
C15_Witness ==
    /\ TipUpdate
    /\ last.resp.status = 201
    /\ Explicit
    /\ Asked = OrderOf(Pre.tips, "tip_id", last.req.tip_id[1])
    /\ Len(TipsOf(Pre.tips, last.req.topic_id)) >= 2
    /\ \E t \in Range(Pre.tips) : t.tip_id # last.req.tip_id[1] /\ t.display_order # Asked

\* C16: a create or update of a Tip with topic_id T changes no Tip of another
\* topic_id and no Topic; a create or update of a Topic changes no Tip.
C16_PerTopicScope ==
    /\ Answered("create_or_update_tip")
       => /\ topics = Pre.topics
          /\ \A i \in DOMAIN Pre.tips :
                (/\ Pre.tips[i].topic_id # last.req.topic_id
                 /\ Some(Pre.tips[i].tip_id) # last.req.tip_id)
                => (i \in DOMAIN tips /\ tips[i] = Pre.tips[i])
    /\ Answered("create_or_update_topic") => tips = Pre.tips

\* a Tip moved inside its Topic while a Tip of another Topic held a key of the
\* shifted interval
C16_Witness ==
    /\ TipUpdate
    /\ last.resp.status = 201
    /\ Explicit
    /\ LET old == OrderOf(Pre.tips, "tip_id", last.req.tip_id[1]) IN
       /\ Asked # old
       /\ \E t \in Range(Pre.tips) :
             /\ t.topic_id # last.req.topic_id
             /\ t.tip_id # last.req.tip_id[1]
             /\ \/ old < t.display_order /\ t.display_order <= Asked
                \/ Asked <= t.display_order /\ t.display_order < old

\* C17: a get, a delete or an upsert answered 404 leaves every stored Topic
\* and Tip, with all fields, as the request found them.
C17_NotFoundLeavesStore ==
    (/\ last.pc = "done"
     /\ last.op \in {"get_topic", "get_tip", "delete_topic", "delete_tip",
                     "create_or_update_topic", "create_or_update_tip"}
     /\ last.resp.status = 404)
    => /\ topics = Pre.topics
       /\ tips = Pre.tips

\* a Topic that is not stored was deleted from a store of Topics and Tips
C17_Witness ==
    /\ Answered("delete_topic")
    /\ last.resp.status = 404
    /\ last.resp.detail = "Topic not found"
    /\ last.req.topic_id \notin TopicIds(Pre.topics)
    /\ Pre.topics # <<>>
    /\ Pre.tips # <<>>

\* C18: after every completed operation of a serial run, the topic_id of each
\* stored Tip is the topic_id of a stored Topic.
C18_ReferentialIntegrity ==
    \A t \in Range(tips) : t.topic_id \in TopicIds(topics)

\* a Topic with Tips was deleted while another Topic keeps its Tips
C18_Witness ==
    /\ Answered("delete_topic")
    /\ last.resp.status = 204
    /\ \E t \in Range(Pre.tips) : t.topic_id = last.req.topic_id
    /\ tips # <<>>

(* ----------------------- concurrent properties, deletes --------------- *)
\* process p creates a Tip and process q has deleted the Topic it names
CreateAfterDelete(p, q) ==
    /\ rq[p].op = "create_or_update_tip"
    /\ rq[p].req.tip_id = None
    /\ rq[q].op = "delete_topic"
    /\ rq[q].pc = "done"
    /\ rq[q].resp.status = 204
    /\ rq[q].req.topic_id = rq[p].req.topic_id

\* a stored Tip of this tip_id names no stored Topic
Orphan(ts, ps, tip_id) ==
    \E t \in Range(ps) : t.tip_id = tip_id /\ t.topic_id \notin TopicIds(ts)

\* C19: a Tip creation for Topic T whose parent check ran before a concurrent
\* deleteTopic(T) and whose insert runs after the cascade leaves a Tip that
\* names no stored Topic: the insert step taken once deleteTopic(T) has
\* answered 204 stores an orphan.
C19_InsertAfterCascadeOrphans ==
    [][\A p \in Procs, q \in Procs :
         (/\ CreateAfterDelete(p, q)
          /\ rq[p].pc = "L387"
          /\ rq'[p].pc = "L388")
         => Orphan(topics', tips', rq[p].loc.next_id[1])]_vars

\* both requests are answered, the creation 201 and the deletion 204, and the
\* created Tip is stored without its Topic
C19_Witness ==
    /\ AllDone
    /\ \E p \in Procs, q \in Procs :
          /\ CreateAfterDelete(p, q)
          /\ rq[p].resp.status = 201
          /\ rq[p].overlapped
          /\ Orphan(topics, tips, rq[p].resp.body[1].tip_id)
====
